---- MODULE Spec2Model ----
(***************************************************************************)
(* Model of the MongoDB MCP server: the insight ledger and its memo        *)
(* rendering (src/mongo.py, MongoDatabase), the resource and prompt        *)
(* handlers and the tool dispatcher (src/mongo.py, main), and the FastMCP  *)
(* tools of src/src/mcp_server_mongo/server.py.                            *)
(*                                                                         *)
(* Text is modelled as a sequence of pieces; the piece NL is the newline   *)
(* character, every other piece is a run of characters without a newline.  *)
(* Concatenation of strings is concatenation of sequences, so the line     *)
(* structure of a rendered memo can be computed with SplitLines.           *)
(***************************************************************************)
EXTENDS Integers, Sequences, FiniteSets, TLC

\* ---------------------------------------------------------------- bounds
MaxLen == 3

\* ---------------------------------------------------------------- text
NL == "\n"

\* The insight texts the host may contribute (the empty string included).
Entries == {"", "A"}

RECURSIVE SplitLinesFrom(_, _, _)
SplitLinesFrom(text, i, cur) ==
    IF i > Len(text) THEN <<cur>>
    ELSE IF text[i] = NL THEN <<cur>> \o SplitLinesFrom(text, i + 1, <<>>)
    ELSE SplitLinesFrom(text, i + 1, Append(cur, text[i]))

\* The lines of a text, each a sequence of pieces (what str.split("\n") gives);
\* used to read the line structure of a rendered memo.
SplitLines(text) == SplitLinesFrom(text, 1, <<>>)

RECURSIVE JoinFrom(_, _, _)
JoinFrom(sep, parts, i) ==
    IF i > Len(parts) THEN <<>>
    ELSE IF i = Len(parts) THEN parts[i]
    ELSE parts[i] \o sep \o JoinFrom(sep, parts, i + 1)

\* sep.join(parts)
Join(sep, parts) == JoinFrom(sep, parts, 1)

\* ---------------------------------------------------------------- memo
NoInsights == "No business insights have been discovered yet."
\* the header line carries a chart emoji on both sides in the source
Header == "Business Intelligence Memo"
SectionTitle == "Key Insights Discovered:"
SummaryLabel == "Summary:"
SummaryPrefix == "Analysis has revealed "
SummarySuffix == " key business insights that suggest opportunities for strategic optimization and growth."

\* f"- {insight}"
Bullet(insight) == <<"- ", insight>>

\* the f-string of the summary sentence, the count formatted in decimal
SummarySentence(n) == <<SummaryPrefix, ToString(n), SummarySuffix>>

\* _synthesize_memo without its test for the empty ledger
synthesize_memo_no_sentinel(ins) ==
    LET bullets == Join(<<NL>>, [i \in 1..Len(ins) |-> Bullet(ins[i])])
        memo2 == <<Header, NL, NL, SectionTitle, NL, NL>> \o bullets
    IN  IF Len(ins) > 1
        THEN memo2 \o <<NL, SummaryLabel, NL>> \o SummarySentence(Len(ins))
        ELSE memo2

\* _synthesize_memo with the summary written from the first entry on
synthesize_memo_summary_from_one(ins) ==
    IF ins = <<>> THEN <<NoInsights>>
    ELSE LET bullets == Join(<<NL>>, [i \in 1..Len(ins) |-> Bullet(ins[i])])
             memo2 == <<Header, NL, NL, SectionTitle, NL, NL>> \o bullets
         IN  IF Len(ins) >= 1
             THEN memo2 \o <<NL, SummaryLabel, NL>> \o SummarySentence(Len(ins))
             ELSE memo2

\* _synthesize_memo with an empty line written ahead of the summary label
synthesize_memo_blank_before_summary(ins) ==
    IF ins = <<>> THEN <<NoInsights>>
    ELSE LET bullets == Join(<<NL>>, [i \in 1..Len(ins) |-> Bullet(ins[i])])
             memo2 == <<Header, NL, NL, SectionTitle, NL, NL>> \o bullets
         IN  IF Len(ins) > 1
             THEN memo2 \o <<NL, NL, SummaryLabel, NL>> \o SummarySentence(Len(ins))
             ELSE memo2

\* _synthesize_memo citing a length it read before the last entry arrived
synthesize_memo_stale_count(ins) ==
    IF ins = <<>> THEN <<NoInsights>>
    ELSE LET bullets == Join(<<NL>>, [i \in 1..Len(ins) |-> Bullet(ins[i])])
             memo2 == <<Header, NL, NL, SectionTitle, NL, NL>> \o bullets
         IN  IF Len(ins) > 1
             THEN memo2 \o <<NL, SummaryLabel, NL>> \o SummarySentence(Len(ins) - 1)
             ELSE memo2

\* MongoDatabase._synthesize_memo
_synthesize_memo(ins) ==
    IF ins = <<>> THEN <<NoInsights>>
    ELSE LET bullets == Join(<<NL>>, [i \in 1..Len(ins) |-> Bullet(ins[i])])
             memo0 == <<Header, NL, NL>>
             memo1 == memo0 \o <<SectionTitle, NL, NL>>
             memo2 == memo1 \o bullets
         IN  IF Len(ins) > 1
             THEN memo2 \o <<NL, SummaryLabel, NL>> \o SummarySentence(Len(ins))
             ELSE memo2

\* ---------------------------------------------------------------- outcomes
Absent == "<absent>"
NoName == <<>>
NoUri == [scheme |-> "-", host |-> "-", path |-> <<>>]

\* What a handler hands back to the protocol runtime, with the facts of the
\* request it answers.
\*   op       the handler
\*   name     the tool or prompt name of the request, "-" when it has none
\*   uri      the URL of a resource read, NoUri otherwise
\*   bag      "None" or "dict": the argument bag of a tool request
\*   coll     the "collection" argument (AbsentColl when the key is missing)
\*   insight  the "insight" argument, Absent when the key is missing
\*   drv      how the driver behaves during the request (see DriverRuns)
\*   kind     "data": returned normally with a payload
\*            "error_text": returned normally with the text "Error: <message>"
\*            "raised": an exception left the handler
\*   exc      class of the exception raised or caught, "-" when none
\*   text     the returned text, or the message of the escaped exception
\*   driver   the driver operation that was forwarded, "-" when none was
Request(op, name, uri, bag, coll, insight, drv) ==
    [op |-> op, name |-> name, uri |-> uri, bag |-> bag, coll |-> coll,
     insight |-> insight, drv |-> drv]

Outcome(req, kind, exc, text, driver) ==
    [op |-> req.op, name |-> req.name, uri |-> req.uri, bag |-> req.bag,
     coll |-> req.coll, insight |-> req.insight, drv |-> req.drv,
     kind |-> kind, exc |-> exc, text |-> text, driver |-> driver]

Plain(op, name) == Request(op, name, NoUri, "-", NoName, Absent, "-")

Returns(req, text) == Outcome(req, "data", "-", text, "-")

Raises(req, exc, msg) == Outcome(req, "raised", exc, msg, "-")

NoOutcome == Returns(Plain("none", "-"), <<>>)

\* ---------------------------------------------------------------- URIs
\* A parsed URL (pydantic AnyUrl): scheme, host and path segments.  Its string
\* is scheme "://" host ("/" segment)*; an empty segment writes only its "/".
\* The separator "://" occurs in such a string only after the scheme.
Schemes == {"memo", "file"}
Hosts == {"", "insights", "memo", "other"}
Paths == {<<>>, <<"">>, <<"insights">>}
Uris == [scheme : Schemes, host : Hosts, path : Paths]

Piece(s) == IF s = "" THEN <<>> ELSE <<s>>

RECURSIVE PathStr(_, _)
PathStr(path, i) ==
    IF i > Len(path) THEN <<>>
    ELSE <<"/">> \o Piece(path[i]) \o PathStr(path, i + 1)

\* str(uri)
UriStr(uri) == <<uri.scheme, "://">> \o Piece(uri.host) \o PathStr(uri.path, 1)

StartsWithAt(text, i, pat) ==
    /\ i + Len(pat) - 1 <= Len(text)
    /\ \A k \in 1..Len(pat) : text[i + k - 1] = pat[k]

RECURSIVE RemoveAllFrom(_, _, _)
RemoveAllFrom(text, i, pat) ==
    IF i > Len(text) THEN <<>>
    ELSE IF StartsWithAt(text, i, pat) THEN RemoveAllFrom(text, i + Len(pat), pat)
    ELSE <<text[i]>> \o RemoveAllFrom(text, i + 1, pat)

\* text.replace(pat, ""): every occurrence removed, scanning left to right
RemoveAll(text, pat) == RemoveAllFrom(text, 1, pat)

MemoPrefix == <<"memo", "://">>

\* handle_read_resource with "and" for "or" in its test of the path
handle_read_resource_and(uri, ins) ==
    LET req == Request("read_resource", "-", uri, "-", NoName, Absent, "-")
    IN  IF uri.scheme # "memo"
        THEN Raises(req, "ValueError", <<"Unsupported URI scheme: ", uri.scheme>>)
        ELSE LET path == RemoveAll(UriStr(uri), MemoPrefix)
             IN  IF path = <<>> /\ path # <<"insights">>
                 THEN Raises(req, "ValueError", <<"Unknown resource path: ">> \o path)
                 ELSE Returns(req, _synthesize_memo(ins))

\* handle_read_resource
handle_read_resource(uri, ins) ==
    LET req == Request("read_resource", "-", uri, "-", NoName, Absent, "-")
    IN  IF uri.scheme # "memo"
        THEN Raises(req, "ValueError", <<"Unsupported URI scheme: ", uri.scheme>>)
        ELSE LET path == RemoveAll(UriStr(uri), MemoPrefix)
             IN  IF path = <<>> \/ path # <<"insights">>
                 THEN Raises(req, "ValueError", <<"Unknown resource path: ">> \o path)
                 ELSE Returns(req, _synthesize_memo(ins))

\* the URL of the one resource that handle_list_resources advertises
MemoUri == [scheme |-> "memo", host |-> "insights", path |-> <<>>]

\* handle_list_resources
handle_list_resources == Returns(Plain("list_resources", "-"), UriStr(MemoUri))

\* ---------------------------------------------------------------- prompts
PromptNames == {"mcp-demo", "other-prompt"}
Topics == {"retail"}
\* the argument bag of a prompt request: None, an empty dict, or a dict whose
\* "topic" is one of Topics
PromptArgs == {"None", "empty"} \cup Topics

\* handle_list_prompts
handle_list_prompts == Returns(Plain("list_prompts", "-"), <<"mcp-demo">>)

\* handle_get_prompt; the template is abbreviated to its three uses of {topic}
handle_get_prompt(name, arguments) ==
    LET req == Plain("get_prompt", name)
    IN  IF name # "mcp-demo"
        THEN Raises(req, "ValueError", <<"Unknown prompt: ", name>>)
        ELSE IF arguments \in {"None", "empty"}
        THEN Raises(req, "ValueError", <<"Missing required argument: topic">>)
        ELSE Returns(req, <<"The topic is: ", arguments,
                            "The user has chosen the topic: ", arguments,
                            "I see you've chosen the topic ", arguments>>)

\* ---------------------------------------------------------------- driver
\* Collection names are dotted names, modelled as their sequence of segments:
\* <<"system", "users">> is "system.users".
CollNames == {<<"users">>, <<"system">>, <<"system", "users">>, <<"systems", "users">>}

\* name.startswith("system.")
StartsWithSystemDot(coll) == Len(coll) >= 2 /\ coll[1] = "system"

\* How the driver behaves during one request: every call succeeds ("ok"), the
\* client names no default database so the database lookup raises
\* ("no_default_db"), the collection handle is refused ("bad_collection"), or
\* the forwarded operation raises ("op_fails").
DriverRuns == {"ok", "no_default_db", "bad_collection", "op_fails"}

\* ---------------------------------------------------------------- tools
\* The names a tool request may carry: the five registered tools, the
\* append_insight tool that PROMPT_TEMPLATE tells the assistant to use, and a
\* name that appears nowhere.
RegisteredTools == {"query", "aggregate", "serverInfo", "count", "listCollections"}
ToolNames == RegisteredTools \cup {"append_insight", "no_such_tool"}

\* handle_list_tools: the "required" list of each registered tool's inputSchema
handle_list_tools ==
    [t \in RegisteredTools |->
        CASE t = "query" -> {"collection"}
          [] t = "aggregate" -> {"collection", "pipeline"}
          [] OTHER -> {}]

\* The argument bag of a tool request: None, or a dict.  A key that is not in
\* the dict has the value Absent (AbsentColl for "collection").  "filter" is a
\* dict, a JSON string that parses ("json") or one that does not ("badjson").
AbsentColl == <<Absent>>
NoneBag == [isNone |-> TRUE, collection |-> AbsentColl, filter |-> Absent,
            pipeline |-> Absent, insight |-> Absent]
DictBags == [isNone : {FALSE}, collection : CollNames \cup {AbsentColl},
             filter : {Absent, "dict", "json", "badjson"},
             pipeline : {Absent, "stages"},
             insight : {Absent, "A"}]
ArgBags == DictBags \cup {NoneBag}

ErrorText(msg) == <<"Error: ">> \o msg

\* the except clause of handle_call_tool
Caught(req, exc, msg) == Outcome(req, "error_text", exc, ErrorText(msg), "-")

\* a driver operation issued inside the try block, and the return after it
Forward(req, driver, result) ==
    IF req.drv = "op_fails"
    THEN Outcome(req, "error_text", "PyMongoError",
                 ErrorText(<<"driver: ", driver>>), driver)
    ELSE Outcome(req, "data", "-", <<result>>, driver)

\* the try block with an else branch that returns nothing instead of raising
ToolBranch_silent(req, arguments) ==
    CASE req.name = "query" ->
            IF StartsWithSystemDot(arguments.collection)
            THEN Caught(req, "ValueError", <<"Access to system collections is not allowed">>)
            ELSE IF arguments.filter = "badjson"
            THEN Caught(req, "JSONDecodeError", <<"Expecting value">>)
            ELSE Forward(req, "find", "cursor")
      [] req.name = "aggregate" ->
            IF arguments.pipeline = Absent
            THEN Caught(req, "ValueError", <<"Missing pipeline argument">>)
            ELSE Forward(req, "aggregate", "cursor")
      [] req.name = "serverInfo" -> Forward(req, "command", "server_info")
      [] req.name = "listCollections" -> Forward(req, "list_collections", "cursor")
      [] req.name = "count" -> Forward(req, "count_documents", "count")
      [] OTHER -> Outcome(req, "data", "-", <<>>, "-")

\* the try block of handle_call_tool: the branch taken for a tool name
ToolBranch(req, arguments) ==
    CASE req.name = "query" ->
            IF StartsWithSystemDot(arguments.collection)
            THEN Caught(req, "ValueError", <<"Access to system collections is not allowed">>)
            ELSE IF arguments.filter = "badjson"
            THEN Caught(req, "JSONDecodeError", <<"Expecting value">>)
            ELSE Forward(req, "find", "cursor")
      [] req.name = "aggregate" ->
            IF arguments.pipeline = Absent
            THEN Caught(req, "ValueError", <<"Missing pipeline argument">>)
            ELSE Forward(req, "aggregate", "cursor")
      [] req.name = "serverInfo" -> Forward(req, "command", "server_info")
      [] req.name = "listCollections" -> Forward(req, "list_collections", "cursor")
      [] req.name = "count" -> Forward(req, "count_documents", "count")
      [] OTHER -> Caught(req, "ValueError", <<"Unknown tool: ", req.name>>)

\* handle_call_tool: the collection lookup ahead of the try block, then the
\* try block
handle_call_tool(name, arguments, drv) ==
    LET req == Request("call_tool", name, NoUri,
                       IF arguments.isNone THEN "None" ELSE "dict",
                       arguments.collection, arguments.insight, drv)
    IN  IF drv = "no_default_db"
        THEN Raises(req, "ConfigurationError", <<"No default database defined">>)
        ELSE IF arguments.isNone
        THEN Raises(req, "TypeError", <<"'NoneType' object is not subscriptable">>)
        ELSE IF arguments.collection = AbsentColl
        THEN Raises(req, "KeyError", <<"'collection'">>)
        ELSE IF drv = "bad_collection"
        THEN Raises(req, "InvalidName", <<"collection name">>)
        ELSE ToolBranch(req, arguments)

\* ---------------------------------------------------------------- FastMCP tools
\* the tools of server.py: no try block, the driver's exceptions leave the tool
FastRequest(name, coll, drv) == Request("fast_tool", name, NoUri, "dict", coll, Absent, drv)

\* query, aggregate and count of server.py
FastCollectionTool(name, driver, coll, drv) ==
    LET req == FastRequest(name, coll, drv)
    IN  IF drv = "no_default_db"
        THEN Raises(req, "ConfigurationError", <<"No default database defined">>)
        ELSE IF drv = "bad_collection"
        THEN Raises(req, "InvalidName", <<"collection name">>)
        ELSE IF drv = "op_fails"
        THEN Outcome(req, "raised", "PyMongoError", <<"driver: ", driver>>, driver)
        ELSE Outcome(req, "data", "-", <<"list">>, driver)

\* serverInfo and listCollections of server.py
FastDatabaseTool(name, driver, drv) ==
    LET req == FastRequest(name, AbsentColl, drv)
    IN  IF drv = "no_default_db"
        THEN Raises(req, "ConfigurationError", <<"No default database defined">>)
        ELSE IF drv \in {"op_fails"}
        THEN Outcome(req, "raised", "PyMongoError", <<"driver: ", driver>>, driver)
        ELSE Outcome(req, "data", "-", <<"list">>, driver)

query(coll, drv) == FastCollectionTool("query", "find", coll, drv)

aggregate(coll, drv) == FastCollectionTool("aggregate", "aggregate", coll, drv)

count(coll, drv) == FastCollectionTool("count", "count_documents", coll, drv)

serverInfo(drv) == FastDatabaseTool("serverInfo", "command", drv)

listCollections(drv) == FastDatabaseTool("listCollections", "list_collections", drv)

\* ---------------------------------------------------------------- startup
\* Connection strings, as their pieces: the scheme prefix first.
ConnStrings == {<<"mongodb://", "localhost", "/app">>, <<"mongodb://", "localhost">>,
                <<"mongodb+srv://", "cluster", "/app">>, <<"localhost:27017">>}

\* os.environ without the key "db_uri"
NoEnv == <<>>

\* a connection string the driver accepts
WellFormed(uri) == uri # NoEnv /\ uri[1] \in {"mongodb://", "mongodb+srv://"}

NoClient == [uri |-> <<>>]

\* the ledger attribute of a database object whose constructor did not get
\* as far as assigning it
NoLedger == <<"<no ledger>">>

\* the attribute _init_database hands to MongoClient, in each server
InitDatabaseReads == [mongo |-> "db_path", fastmcp |-> "db_uri"]

\* MongoDatabase.__init__ with _init_database: the outcome of constructing a
\* database object from the connection string uri, attr being the attribute
\* that _init_database reads
MongoDatabase(attr, uri) ==
    LET assigned == {"db_uri"}
        Fails(exc) == [exc |-> exc, client |-> NoClient, insights |-> NoLedger,
                       built |-> 0]
    IN  IF attr \notin assigned THEN Fails("AttributeError")
        ELSE IF ~WellFormed(uri) THEN Fails("InvalidURI")
        ELSE [exc |-> "-", client |-> [uri |-> uri], insights |-> <<>>, built |-> 1]

\* ---------------------------------------------------------------- state
VARIABLES
    variant,    \* which server is running: "mongo" (mongo.py) or "fastmcp" (server.py)
    insights,   \* MongoDatabase.insights, the ledger
    out,        \* the outcome of the request handled last
    phase,      \* "boot" before startup, then "serving" or "crashed"
    db_uri,     \* the connection string handed to the server
    client,     \* MongoDatabase.client, the connection the database object holds
    built       \* how many database objects have been constructed

\* what startup sets and no request changes
conn == <<phase, db_uri, client, built>>

vars == <<variant, insights, out, phase, db_uri, client, built>>

Variants == {"mongo", "fastmcp"}

\* MongoDatabase.__init__: the ledger of a new database object
NewLedger == <<>>

RECURSIVE SeqsUpTo(_, _)
SeqsUpTo(S, n) ==
    IF n = 0 THEN {<<>>}
    ELSE LET shorter == SeqsUpTo(S, n - 1)
         IN  shorter \cup {Append(s, e) : s \in {t \in shorter : Len(t) = n - 1}, e \in S}

Ledgers == SeqsUpTo(Entries, MaxLen)

\* the connection string of the servers whose startup is not followed
DefaultUri == <<"mongodb://", "localhost", "/app">>

\* a database object that holds a connection opened from DefaultUri
Serving ==
    /\ phase = "serving"
    /\ db_uri = DefaultUri
    /\ client = [uri |-> DefaultUri]
    /\ built = 1

\* The server once its database object is built and its handlers are
\* registered, the ledger as MongoDatabase.__init__ leaves it.  Startup itself
\* is followed from InitBoot, under SpecBoot.
Init ==
    /\ variant \in Variants
    /\ insights = NewLedger
    /\ out = NoOutcome
    /\ Serving

\* the process before startup, holding the connection string it was given
InitBoot ==
    /\ variant \in Variants
    /\ insights = NoLedger
    /\ out = NoOutcome
    /\ phase = "boot"
    /\ db_uri \in ConnStrings \cup (IF variant = "fastmcp" THEN {NoEnv} ELSE {})
    /\ client = NoClient
    /\ built = 0

\* what startup leaves behind once the constructor has returned or raised
Started(db) ==
    /\ phase' = IF db.exc = "-" THEN "serving" ELSE "crashed"
    /\ client' = db.client
    /\ insights' = db.insights
    /\ built' = built + db.built
    /\ out' = IF db.exc = "-"
              THEN Returns(Plain("startup", "-"), <<>>)
              ELSE Raises(Plain("startup", "-"), db.exc, <<>>)
    /\ UNCHANGED <<variant, db_uri>>

\* main of mongo.py, up to the registration of the handlers
StartMongo ==
    /\ phase = "boot"
    /\ variant = "mongo"
    /\ Started(MongoDatabase(InitDatabaseReads.mongo, db_uri))

\* the module body of server.py: the environment lookup and the database object
StartFastMcp ==
    /\ phase = "boot"
    /\ variant = "fastmcp"
    /\ IF db_uri = NoEnv
       THEN Started([exc |-> "KeyError", client |-> NoClient,
                     insights |-> NoLedger, built |-> 0])
       ELSE Started(MongoDatabase(InitDatabaseReads.fastmcp, db_uri))

\* the handlers over a database object that holds any ledger
InitLedger ==
    /\ variant \in Variants
    /\ insights \in Ledgers
    /\ out = NoOutcome
    /\ Serving

ListResources ==
    /\ phase = "serving"
    /\ variant = "mongo"
    /\ out' = handle_list_resources
    /\ UNCHANGED <<variant, insights, conn>>

\* a read that takes the first entry off the ledger as it renders
ReadResource_consumes ==
    /\ phase = "serving"
    /\ variant = "mongo"
    /\ \E uri \in Uris : out' = handle_read_resource(uri, insights)
    /\ insights' = IF insights = <<>> THEN insights ELSE Tail(insights)
    /\ UNCHANGED <<variant, conn>>

ReadResource ==
    /\ phase = "serving"
    /\ variant = "mongo"
    /\ \E uri \in Uris : out' = handle_read_resource(uri, insights)
    /\ UNCHANGED <<variant, insights, conn>>

ListPrompts ==
    /\ phase = "serving"
    /\ variant = "mongo"
    /\ out' = handle_list_prompts
    /\ UNCHANGED <<variant, insights, conn>>

GetPrompt ==
    /\ phase = "serving"
    /\ variant = "mongo"
    /\ \E name \in PromptNames, arguments \in PromptArgs :
            out' = handle_get_prompt(name, arguments)
    /\ UNCHANGED <<variant, insights, conn>>

ListTools ==
    /\ phase = "serving"
    /\ variant = "mongo"
    /\ out' = Returns(Plain("list_tools", "-"), <<"tools">>)
    /\ UNCHANGED <<variant, insights, conn>>

\* a tool call that starts the ledger afresh
CallTool_resets ==
    /\ phase = "serving"
    /\ variant = "mongo"
    /\ \E name \in ToolNames, arguments \in ArgBags, drv \in DriverRuns :
            out' = handle_call_tool(name, arguments, drv)
    /\ insights' = NewLedger
    /\ UNCHANGED <<variant, conn>>

CallTool ==
    /\ phase = "serving"
    /\ variant = "mongo"
    /\ \E name \in ToolNames, arguments \in ArgBags, drv \in DriverRuns :
            out' = handle_call_tool(name, arguments, drv)
    /\ UNCHANGED <<variant, insights, conn>>

FastQuery ==
    /\ phase = "serving"
    /\ variant = "fastmcp"
    /\ \E coll \in CollNames, drv \in DriverRuns : out' = query(coll, drv)
    /\ UNCHANGED <<variant, insights, conn>>

FastAggregate ==
    /\ phase = "serving"
    /\ variant = "fastmcp"
    /\ \E coll \in CollNames, drv \in DriverRuns : out' = aggregate(coll, drv)
    /\ UNCHANGED <<variant, insights, conn>>

FastServerInfo ==
    /\ phase = "serving"
    /\ variant = "fastmcp"
    /\ \E drv \in DriverRuns : out' = serverInfo(drv)
    /\ UNCHANGED <<variant, insights, conn>>

FastListCollections ==
    /\ phase = "serving"
    /\ variant = "fastmcp"
    /\ \E drv \in DriverRuns : out' = listCollections(drv)
    /\ UNCHANGED <<variant, insights, conn>>

FastCount ==
    /\ phase = "serving"
    /\ variant = "fastmcp"
    /\ \E coll \in CollNames, drv \in DriverRuns : out' = count(coll, drv)
    /\ UNCHANGED <<variant, insights, conn>>

Next ==
    \/ ListResources
    \/ ReadResource
    \/ ListPrompts
    \/ GetPrompt
    \/ ListTools
    \/ CallTool
    \/ FastQuery
    \/ FastAggregate
    \/ FastServerInfo
    \/ FastListCollections
    \/ FastCount

Spec == Init /\ [][Next]_vars

SpecLedger == InitLedger /\ [][Next]_vars

\* Startup and what follows it.  The handlers of mongo.py are registered by
\* main after the database object is built; the tools of server.py are served
\* once the module body has run.
NextBoot ==
    \/ StartMongo
    \/ StartFastMcp
    \/ FastQuery
    \/ FastAggregate
    \/ FastServerInfo
    \/ FastListCollections
    \/ FastCount

SpecBoot == InitBoot /\ [][NextBoot]_vars

\* ---------------------------------------------------------------- properties
ReadOk(o) == o.op = "read_resource" /\ o.kind = "data"

ToolCall(o) == o.op \in {"call_tool", "fast_tool"}

\* the lines of a memo that are bullets
BulletLines(memo) ==
    LET IsBullet(line) == Len(line) = 2 /\ line[1] = "- "
    IN  SelectSeq(SplitLines(memo), IsBullet)

\* a "Summary:" line followed by a summary sentence
HasSummaryBlock(memo) ==
    LET L == SplitLines(memo)
    IN  \E i \in 1..(Len(L) - 1) :
            /\ L[i] = <<SummaryLabel>>
            /\ Len(L[i + 1]) = 3
            /\ L[i + 1][1] = SummaryPrefix

IsPrefix(s, t) == Len(s) <= Len(t) /\ \A i \in 1..Len(s) : s[i] = t[i]

\* C1: whenever the ledger is empty, the render is exactly the sentence
\* "No business insights have been discovered yet.", and so is a memo read.
C1_EmptyLedgerSentinel ==
    insights = <<>> =>
        /\ _synthesize_memo(insights) = <<NoInsights>>
        /\ ReadOk(out) => out.text = <<NoInsights>>

C1_Witness == ReadOk(out) /\ insights = <<>> /\ out.text = <<NoInsights>>

\* C2: once the host's request to append an insight e has been handled, the
\* render lists one bullet line per appended entry, in order, the last of
\* them "- " followed by e.
C2_AppendThenRender ==
    (out.op = "call_tool" /\ out.name = "append_insight" /\ out.insight # Absent) =>
        LET bl == BulletLines(_synthesize_memo(insights))
        IN  /\ Len(bl) >= 1
            /\ Len(bl) = Len(insights)
            /\ \A i \in 1..Len(bl) : bl[i] = Bullet(insights[i])
            /\ bl[Len(bl)] = Bullet(out.insight)

\* C3: a rendered memo has the summary block exactly when the ledger holds
\* more than one entry, the summary sentence then cites the number of entries,
\* and with one entry the memo is the header, the section title and the one
\* bullet.
C3_SummaryIffMoreThanOne ==
    ReadOk(out) =>
        LET L == SplitLines(out.text)
            n == Len(insights)
        IN  /\ HasSummaryBlock(out.text) <=> n > 1
            /\ n > 1 => L[Len(L)] = <<SummaryPrefix, ToString(n), SummarySuffix>>
            /\ n = 1 => L = << <<Header>>, <<>>, <<SectionTitle>>, <<>>,
                               Bullet(insights[1]) >>

C3_Witness ==
    /\ ReadOk(out)
    /\ Len(insights) = 2
    /\ HasSummaryBlock(out.text)

\* C4: with more than one entry, the rendered memo has an empty line between
\* the last bullet line and the "Summary:" label, and the summary sentence
\* after the label.
C4_BlankLineBeforeSummary ==
    (ReadOk(out) /\ Len(insights) > 1) =>
        LET L == SplitLines(out.text)
            n == Len(insights)
        IN  \E i \in 1..(Len(L) - 3) :
                /\ L[i] = Bullet(insights[n])
                /\ L[i + 1] = <<>>
                /\ L[i + 2] = <<SummaryLabel>>
                /\ L[i + 3] = SummarySentence(n)

\* C4 (amended): with more than one entry, the rendered memo ends with the
\* last bullet, one newline, the "Summary:" label, one newline and the summary
\* sentence, so the label stands on the line right after the last bullet.
C4_SummaryFollowsLastBullet ==
    (ReadOk(out) /\ Len(insights) > 1) =>
        LET n == Len(insights)
            tail == Bullet(insights[n]) \o <<NL, SummaryLabel, NL>> \o SummarySentence(n)
            L == SplitLines(out.text)
        IN  /\ Len(out.text) >= Len(tail)
            /\ SubSeq(out.text, Len(out.text) - Len(tail) + 1, Len(out.text)) = tail
            /\ L[Len(L) - 2] = Bullet(insights[n])
            /\ L[Len(L) - 1] = <<SummaryLabel>>

C4_Witness ==
    /\ ReadOk(out)
    /\ Len(insights) = 3
    /\ SplitLines(out.text)[Len(SplitLines(out.text)) - 1] = <<SummaryLabel>>

\* C5: a render changes nothing in the ledger, and a render that follows a
\* render returns the same text.
C5_RenderPure ==
    [][ReadOk(out') =>
            /\ insights' = insights
            /\ ReadOk(out) => out'.text = out.text]_vars

C5_Witness == ReadOk(out) /\ Len(insights) >= 2

\* C6: the ledger only grows at its end: across every step the ledger before
\* is a prefix of the ledger after.
C6_AppendOnly == [][IsPrefix(insights, insights')]_vars

C6_Witness == out.op = "call_tool" /\ insights # <<>>

\* C7: no tool call lets an exception leave the handler; a failure comes back
\* as the text "Error: <message>".
C7_FailuresCaught ==
    ToolCall(out) =>
        /\ out.kind # "raised"
        /\ out.kind = "error_text" => out.text[1] = "Error: "

\* C8: serverInfo and listCollections declare no required argument, and a
\* call without a "collection" during which the driver succeeds is forwarded
\* and returns data.
C8_NoRequiredArguments ==
    (/\ ToolCall(out)
     /\ out.name \in {"serverInfo", "listCollections"}
     /\ out.coll = AbsentColl
     /\ out.drv = "ok") =>
        /\ handle_list_tools[out.name] = {}
        /\ out.kind = "data"
        /\ out.driver # "-"

\* C9: a tool request under a name that is not registered ends in an error,
\* whatever its arguments: no data comes back and no driver operation is
\* forwarded.
C9_UnknownToolIsError ==
    (out.op = "call_tool" /\ out.name \notin RegisteredTools) =>
        /\ out.kind \in {"error_text", "raised"}
        /\ out.driver = "-"
        /\ out.kind = "error_text" => out.text = ErrorText(<<"Unknown tool: ", out.name>>)

C9_Witness ==
    /\ out.op = "call_tool"
    /\ out.name = "no_such_tool"
    /\ out.kind = "error_text"

\* C10: a resource read of any URL other than memo://insights raises an
\* error; a read of memo://insights succeeds whatever the ledger holds and
\* returns the render of the ledger.
C10_ReadResource ==
    /\ handle_read_resource(MemoUri, insights).kind = "data"
    /\ out.op = "read_resource" =>
            IF out.uri = MemoUri
            THEN out.kind = "data" /\ out.text = _synthesize_memo(insights)
            ELSE out.kind = "raised" /\ out.exc = "ValueError"

C10_Witness ==
    /\ out.op = "read_resource"
    /\ out.uri = MemoUri
    /\ out.kind = "data"
    /\ insights = <<>>

\* C11: the query tool, in mongo.py and in server.py alike, never forwards a
\* find for a collection whose name starts with "system."; such a request
\* ends in an error.
C11_NoFindOnSystemCollections ==
    (ToolCall(out) /\ out.name = "query" /\ StartsWithSystemDot(out.coll)) =>
        /\ out.driver # "find"
        /\ out.kind # "data"

\* C12: startup constructs one database object, its connection opened from
\* the connection string that was supplied and its ledger empty; startup does
\* not fail when that string is well formed; requests are served only after
\* it, and no request replaces the connection.
C12_StartupBuildsOneDatabase ==
    /\ (phase # "boot" /\ WellFormed(db_uri)) => phase = "serving"
    /\ phase = "serving" => (built = 1 /\ client = [uri |-> db_uri])
    /\ (phase = "serving" /\ out.op = "startup") => insights = <<>>
    /\ ToolCall(out) => (phase = "serving" /\ built = 1 /\ client = [uri |-> db_uri])

\* the bullets of a memo are those of a whole ledger, and the count its
\* summary cites is the number of its bullets
WholeRender(text, ledger) ==
    LET L == SplitLines(text)
        bl == BulletLines(text)
    IN  /\ \E k \in 0..Len(ledger) : text = _synthesize_memo(SubSeq(ledger, 1, k))
        /\ Len(bl) = Len(ledger)
        /\ \A i \in 1..Len(bl) : bl[i] = Bullet(ledger[i])
        /\ HasSummaryBlock(text) => L[Len(L)][2] = ToString(Len(bl))

====
